---- MODULE Spec2Model ----
(***************************************************************************)
(* A model of CopyClone.py: the interactive entry point main(), the        *)
(* classifier is_hidden() and the walk of copy_files_and_folders() over a   *)
(* small file system.                                                       *)
(*                                                                          *)
(* A name is a sequence of one-character strings, a path is a sequence of   *)
(* names starting at the file-system root <<>>.  The file system is the     *)
(* pair (dirs, files) of the directory paths and the regular-file paths.    *)
(* The alphabet of the names holds neither "-" nor "\", so the range and    *)
(* the escape handling of fnmatch's character classes is never needed.      *)
(***************************************************************************)
EXTENDS Integers, Sequences, FiniteSets, TLC

VARIABLES
    dirs, files,            \* the file system: directory paths, file paths
    src, dst,               \* the two paths typed in (or passed) by the caller
    entry,                  \* "main": the script is run; "call": the function is called
    rawInput,               \* the line typed at the exclusion prompt (entry = "main")
    callArg,                \* the exclude_extensions argument (entry = "call")
    platform,               \* sys.platform: "posix" or "win32"
    oddPath, oddKind,       \* win32: the one entry whose attribute query is not plain
    denied, ioerr,          \* files whose copy raises PermissionError / another OSError
    pc,                     \* "start", "notfound", "prepass", "walk", "done", "aborted"
    exclude_extensions,     \* the list copy_files_and_folders works with
    total_files, copied_files,
    progress,               \* progress_bar.n
    stack,                  \* os.walk: the directories still to visit, a sequence of frames
    root,                   \* the directory os.walk yielded last
    pending,                \* the files of root the for loop has not reached yet
    seen,                   \* the file entries os.walk has yielded in this run
    outcome,                \* the log of this run: <<file, what was logged for it>>
    error,                  \* the exception that escaped copy_files_and_folders
    run,                    \* 1 for the first invocation, 2 for the one after it
    initDirs, initFiles,    \* the file system before the first run
    filesAfterFirst         \* the files when the first run ended

vars == <<dirs, files, src, dst, entry, rawInput, callArg, platform, oddPath, oddKind,
          denied, ioerr, pc, exclude_extensions, total_files, copied_files, progress,
          stack, root, pending, seen, outcome, error, run, initDirs, initFiles,
          filesAfterFirst>>

env == <<src, dst, entry, rawInput, callArg, platform, oddPath, oddKind, denied, ioerr,
         initDirs, initFiles>>

-----------------------------------------------------------------------------
(* Bounds of the model *)

\* The deepest path, in components, the platform lets a run reach (PATH_MAX and
\* the interpreter's recursion limit, scaled down).
PathMax == 6

\* How many times in succession copy_files_and_folders is run on the same arguments.
MaxRuns == 2

-----------------------------------------------------------------------------
(* Names and paths *)

S == <<"s">>
D == <<"d">>
A == <<"a">>
O == <<"o">>
H == <<".", "h">>
F_T == <<"f", ".", "t">>
DOT_C == <<".", "c">>
X_BT == <<"x", ".", "[", "t", "]">>
G_T == <<"g", ".", "t">>
K_T == <<"k", ".", "t">>

NoPath == <<<<"?">>, <<"?">>>>

Last(s) == s[Len(s)]
Front(s) == SubSeq(s, 1, Len(s) - 1)
IsPrefix(p, q) == Len(p) <= Len(q) /\ SubSeq(q, 1, Len(p)) = p
Prefixes(p) == {SubSeq(p, 1, n) : n \in 1..Len(p)}
Children(set, d) == {p \in set : Len(p) = Len(d) + 1 /\ Front(p) = d}

\* os.path.exists(p): a component that is a regular file makes everything below it absent.
Exists(p) == p \in dirs \/ p \in files

-----------------------------------------------------------------------------
(* is_hidden *)

\* FILE_ATTRIBUTE_HIDDEN, the mask of line 58.
FILE_ATTRIBUTE_HIDDEN == 2

\* INVALID_FILE_ATTRIBUTES, the value GetFileAttributesW returns when it fails:
\* 0xFFFFFFFF, which ctypes hands to Python as the C int -1.
INVALID_FILE_ATTRIBUTES == -1

AttrKind(p) == IF platform = "win32" /\ p = oddPath THEN oddKind ELSE "normal"

\* ctypes.windll.kernel32.GetFileAttributesW(filepath), when it returns.
GetFileAttributesW(p) ==
    CASE AttrKind(p) = "hidden" -> 34               \* HIDDEN | ARCHIVE
      [] AttrKind(p) = "invalid" -> INVALID_FILE_ATTRIBUTES
      [] OTHER -> IF p \in dirs THEN 16 ELSE 128    \* DIRECTORY, NORMAL

\* The import of ctypes or the call raises (caught by the bare except).
QueryRaises(p) == AttrKind(p) = "raise"

\* attrs & mask for a one-bit mask, on Python's two's-complement integers
\* (\div rounds down and % is never negative, so -1 has every bit set).
BitAnd(attrs, mask) == ((attrs \div mask) % 2) * mask

\* is_hidden(filepath), as the truth value the callers test.
is_hidden(p) ==
    IF platform = "win32"
    THEN IF QueryRaises(p) THEN FALSE
         ELSE BitAnd(GetFileAttributesW(p), FILE_ATTRIBUTE_HIDDEN) # 0
    ELSE Len(Last(p)) > 0 /\ Head(Last(p)) = "."

-----------------------------------------------------------------------------
(* fnmatch.fnmatch(file, "*." + ext) *)

Lower(c) == IF c = "T" THEN "t" ELSE c

\* os.path.normcase: the identity on posix, lower case on win32.
normcase(s) == IF platform = "win32" THEN [i \in 1..Len(s) |-> Lower(s[i])] ELSE s

RECURSIVE ScanClass(_, _)
ScanClass(p, j) == IF j <= Len(p) /\ p[j] # "]" THEN ScanClass(p, j + 1) ELSE j

\* fnmatch.translate at a "[": the index of the "]" that closes the class, 0 if none.
ClassEnd(p) ==
    LET j1 == IF 2 <= Len(p) /\ p[2] = "!" THEN 3 ELSE 2
        j2 == IF j1 <= Len(p) /\ p[j1] = "]" THEN j1 + 1 ELSE j1
        j == ScanClass(p, j2)
    IN IF j > Len(p) THEN 0 ELSE j

InClass(c, stuff) ==
    IF Head(stuff) = "!"
    THEN \A i \in 2..Len(stuff) : stuff[i] # c
    ELSE \E i \in 1..Len(stuff) : stuff[i] = c

RECURSIVE GlobMatch(_, _)
GlobMatch(n, p) ==
    IF p = <<>> THEN n = <<>>
    ELSE LET c == Head(p) IN
         IF c = "*" THEN GlobMatch(n, Tail(p)) \/ (n # <<>> /\ GlobMatch(Tail(n), p))
         ELSE IF c = "?" THEN n # <<>> /\ GlobMatch(Tail(n), Tail(p))
         ELSE IF c = "[" THEN
              LET j == ClassEnd(p) IN
              IF j = 0 THEN n # <<>> /\ Head(n) = "[" /\ GlobMatch(Tail(n), Tail(p))
              ELSE n # <<>> /\ InClass(Head(n), SubSeq(p, 2, j - 1))
                   /\ GlobMatch(Tail(n), SubSeq(p, j + 1, Len(p)))
         ELSE n # <<>> /\ Head(n) = c /\ GlobMatch(Tail(n), Tail(p))

fnmatch(name, pat) == GlobMatch(normcase(name), normcase(pat))

\* Line 82: any(fnmatch.fnmatch(file, f"*.{ext}") for ext in exclude_extensions)
Excluded(name) ==
    \E i \in 1..Len(exclude_extensions) :
        fnmatch(name, <<"*", ".">> \o exclude_extensions[i])

-----------------------------------------------------------------------------
(* main: the exclusion prompt *)

RECURSIVE Split(_)
\* s.split(',')
Split(s) ==
    IF \A i \in 1..Len(s) : s[i] # ","
    THEN <<s>>
    ELSE LET k == CHOOSE i \in 1..Len(s) : s[i] = "," /\ \A j \in 1..(i - 1) : s[j] # ","
         IN <<SubSeq(s, 1, k - 1)>> \o Split(SubSeq(s, k + 1, Len(s)))

RECURSIVE Strip(_)
\* ext.strip()
Strip(s) ==
    IF s # <<>> /\ Head(s) = " " THEN Strip(Tail(s))
    ELSE IF s # <<>> /\ Last(s) = " " THEN Strip(Front(s))
    ELSE s

\* Line 123
ParseExclusions(line) == LET parts == Split(line) IN [i \in 1..Len(parts) |-> Strip(parts[i])]

-----------------------------------------------------------------------------
(* The inputs: source trees, destinations, exclusion lists, failing files *)

\* A source tree under s/: any of three files at the top, s/a/g.t, s/.h/k.t.
SourceTrees == [rootFiles : SUBSET {F_T, DOT_C, X_BT}, hasA : BOOLEAN, hasH : BOOLEAN]

TreeDirs(t) ==
    {<<S>>} \cup (IF t.hasA THEN {<<S, A>>} ELSE {}) \cup (IF t.hasH THEN {<<S, H>>} ELSE {})

TreeFiles(t) ==
    {<<S, n>> : n \in t.rootFiles}
        \cup (IF t.hasA THEN {<<S, A, G_T>>} ELSE {})
        \cup (IF t.hasH THEN {<<S, H, K_T>>} ELSE {})

\* The destination typed in, and what is there before the run:
\*   fresh  d does not exist              dir   d is an empty directory
\*   file   d is a regular file           slot  d is a directory holding a file d/a
\*   in1    the destination is s/a        in2   the destination is s/a/o
\*   same   the destination is the source
DstSetups == {"fresh", "dir", "file", "slot", "in1", "in2", "same"}

DstOf(k) ==
    CASE k = "in1" -> <<S, A>>
      [] k = "in2" -> <<S, A, O>>
      [] k = "same" -> <<S>>
      [] OTHER -> <<D>>

DstDirs(k) == IF k \in {"dir", "slot"} THEN {<<D>>} ELSE {}

DstFiles(k) ==
    CASE k = "file" -> {<<D>>}
      [] k = "slot" -> {<<D, A>>}
      [] OTHER -> {}

\* Lines typed at the exclusion prompt: "", "t", "[t]", "T, t".
RawInputs == {<<>>, <<"t">>, <<"[", "t", "]">>, <<"T", ",", " ", "t">>}

\* How the run starts: the script with a typed line, or the function with a list.
Starts ==
    {[entry |-> "main", raw |-> r, arg |-> <<>>] : r \in RawInputs}
        \cup {[entry |-> "call", raw |-> <<>>, arg |-> <<>>]}

\* At most one file of the tree fails to copy.
Failures(t) ==
    {[denied |-> {}, ioerr |-> {}]}
        \cup {[denied |-> {f}, ioerr |-> {}] : f \in TreeFiles(t)}
        \cup {[denied |-> {}, ioerr |-> {f}] : f \in TreeFiles(t)}

\* win32: at most one entry of the tree whose attribute query is not plain.
Oddities(t) ==
    {[path |-> NoPath, kind |-> "normal"]}
        \cup {[path |-> p, kind |-> k] :
                 p \in (TreeDirs(t) \ {<<S>>}) \cup TreeFiles(t),
                 k \in {"hidden", "invalid", "raise"}}

Config(t, sk, k, st, fl, pf, odd) ==
    [tree |-> t, srcKind |-> sk, dstc |-> k, start |-> st, fail |-> fl,
     platform |-> pf, odd |-> odd]

PosixConfigs ==
    UNION {{Config(t, "tree", k, st, fl, "posix", [path |-> NoPath, kind |-> "normal"]) :
               k \in DstSetups, st \in Starts, fl \in Failures(t)} : t \in SourceTrees}

Win32Configs ==
    UNION {{Config(t, "tree", "fresh", st, [denied |-> {}, ioerr |-> {}], "win32", odd) :
               st \in {s \in Starts : s.raw \in {<<>>, <<"T", ",", " ", "t">>}},
               odd \in Oddities(t)} : t \in SourceTrees}

\* The source path does not exist ("missing") or names a regular file ("file").
NoTreeConfigs ==
    {Config([rootFiles |-> {}, hasA |-> FALSE, hasH |-> FALSE], sk, k, st,
            [denied |-> {}, ioerr |-> {}], "posix", [path |-> NoPath, kind |-> "normal"]) :
        sk \in {"missing", "file"}, k \in {"fresh", "dir", "file"}, st \in Starts}

Configs == PosixConfigs \cup Win32Configs \cup NoTreeConfigs

ConfigDirs(c) ==
    {<<>>} \cup (IF c.srcKind = "tree" THEN TreeDirs(c.tree) ELSE {}) \cup DstDirs(c.dstc)

ConfigFiles(c) ==
    (IF c.srcKind = "tree" THEN TreeFiles(c.tree) ELSE {})
        \cup (IF c.srcKind = "file" THEN {<<S>>} ELSE {})
        \cup DstFiles(c.dstc)

Init ==
    \E c \in Configs :
        /\ dirs = ConfigDirs(c)
        /\ files = ConfigFiles(c)
        /\ initDirs = ConfigDirs(c)
        /\ initFiles = ConfigFiles(c)
        /\ src = <<S>>
        /\ dst = DstOf(c.dstc)
        /\ entry = c.start.entry
        /\ rawInput = c.start.raw
        /\ callArg = c.start.arg
        /\ platform = c.platform
        /\ oddPath = c.odd.path
        /\ oddKind = c.odd.kind
        /\ denied = c.fail.denied
        /\ ioerr = c.fail.ioerr
        /\ pc = "start"
        /\ exclude_extensions = <<>>
        /\ total_files = 0
        /\ copied_files = 0
        /\ progress = 0
        /\ stack = <<>>
        /\ root = NoPath
        /\ pending = {}
        /\ seen = {}
        /\ outcome = {}
        /\ error = "none"
        /\ run = 1
        /\ filesAfterFirst = {}

-----------------------------------------------------------------------------
(* main *)

\* main without the check of lines 117-119.
MainUnchecked ==
    /\ pc = "start"
    /\ entry = "main"
    /\ pc' = "prepass"
    /\ exclude_extensions' = ParseExclusions(rawInput)
    /\ UNCHANGED <<dirs, files, env, total_files, copied_files, progress, stack, root,
                   pending, seen, outcome, error, run, filesAfterFirst>>

\* Lines 111-128: the existence check, the exclusion prompt, the call.
Main ==
    /\ pc = "start"
    /\ entry = "main"
    /\ IF ~Exists(src)
       THEN /\ pc' = "notfound"
            /\ UNCHANGED exclude_extensions
       ELSE /\ pc' = "prepass"
            /\ exclude_extensions' = ParseExclusions(rawInput)
    /\ UNCHANGED <<dirs, files, env, total_files, copied_files, progress, stack, root,
                   pending, seen, outcome, error, run, filesAfterFirst>>

\* copy_files_and_folders(src, dst, exclude_extensions) called by another program.
Call ==
    /\ pc = "start"
    /\ entry = "call"
    /\ pc' = "prepass"
    /\ exclude_extensions' = callArg
    /\ UNCHANGED <<dirs, files, env, total_files, copied_files, progress, stack, root,
                   pending, seen, outcome, error, run, filesAfterFirst>>

-----------------------------------------------------------------------------
(* copy_files_and_folders *)

\* os.walk(top) yields nothing when top is not a directory.
WalkStart(top) == IF top \in dirs THEN <<{top}>> ELSE <<>>

\* Line 66: sum([len(files) for _, _, files in os.walk(src)])
CountFiles(top) ==
    IF top \in dirs
    THEN Cardinality({f \in files : IsPrefix(top, f)})
    ELSE 0

\* Lines 66-71: the count, the counter, the progress bar, the start of the walk.
Prepass ==
    /\ pc = "prepass"
    /\ total_files' = CountFiles(src)
    /\ copied_files' = 0
    /\ progress' = 0
    /\ seen' = {}
    /\ outcome' = {}
    /\ stack' = WalkStart(src)
    /\ root' = NoPath
    /\ pending' = {}
    /\ pc' = "walk"
    /\ UNCHANGED <<dirs, files, env, exclude_extensions, error, run, filesAfterFirst>>

\* The walk without the pruning of line 73.
PruneDirsNone(r) == Children(dirs, r)

\* Line 73: dirs[:] = [d for d in dirs if not is_hidden(os.path.join(root, d))]
PruneDirs(r) == {d \in Children(dirs, r) : ~is_hidden(d)}

\* os.walk, top-down: the directory r is taken from the innermost frame, and its
\* (pruned) subdirectories become the new innermost frame.
Descend(r) ==
    LET rest == [stack EXCEPT ![Len(stack)] = @ \ {r}]
        st1 == IF Last(rest) = {} THEN Front(rest) ELSE rest
        keep == PruneDirs(r)
    IN IF keep = {} THEN st1 ELSE Append(st1, keep)

\* Lines 71-73: os.walk yields the next directory, listed as it is now.
WalkDir ==
    /\ pc = "walk"
    /\ pending = {}
    /\ stack # <<>>
    /\ \E r \in Last(stack) :
        /\ root' = r
        /\ pending' = Children(files, r)
        /\ seen' = seen \cup Children(files, r)
        /\ stack' = Descend(r)
    /\ UNCHANGED <<dirs, files, env, pc, exclude_extensions, total_files, copied_files,
                   progress, outcome, error, run, filesAfterFirst>>

\* Line 88: os.path.relpath(root, src); <<>> stands for ".".
RelPath(r) == SubSeq(r, Len(src) + 1, Len(r))

\* Line 89: os.path.join(dst, rel_path)
DestDir(r) == dst \o RelPath(r)

\* Line 92: os.path.exists(dest_dir).  For the top directory dest_dir is "dst/.",
\* which exists only when dst is a directory.
DestDirExists(r) ==
    IF RelPath(r) = <<>> THEN dst \in dirs ELSE Exists(DestDir(r))

\* Line 93: the exception os.makedirs(dest_dir) raises, "none" when it succeeds.
MakedirsError(p) ==
    IF \E q \in Prefixes(p) : q \in files THEN "NotADirectoryError"
    ELSE IF Len(p) > PathMax THEN "ENAMETOOLONG"
    ELSE "none"

\* Line 93: the directories os.makedirs(dest_dir) leaves behind.
MakedirsCreates(p) ==
    IF \E q \in Prefixes(p) : q \in files THEN {}
    ELSE {q \in Prefixes(p) : Len(q) <= PathMax}

\* shutil.copy2(src_file, dest_dir): the file written, given the directories ds.
CopyTarget(f, dd, ds) == IF dd \in ds THEN Append(dd, Last(f)) ELSE dd

\* shutil.copy2(src_file, dest_dir): the exception raised, "none" when it succeeds.
CopyRaises(f, target, ds) ==
    IF target = f THEN "SameFileError"
    ELSE IF f \in denied THEN "PermissionError"
    ELSE IF f \in ioerr THEN "OSError"
    ELSE IF target \in ds THEN "IsADirectoryError"
    ELSE IF Len(target) > PathMax THEN "OSError"
    ELSE "none"

\* The try statement without the except clause of lines 100-101, and with the
\* clause of line 102 narrowed so that it no longer takes a PermissionError.
HandledPermissionEscapes(exc) ==
    CASE exc = "none" -> "copied"
      [] exc = "PermissionError" -> "escape"
      [] OTHER -> "error"

\* Lines 96-103: what the try statement logs for the exception ("escape" would be
\* an exception no except clause takes; "except Exception" takes them all).
Handled(exc) ==
    CASE exc = "none" -> "copied"
      [] exc = "PermissionError" -> "denied"
      [] OTHER -> "error"

\* Lines 92-93: the directories once dest_dir was looked up and, if absent, made.
DirsAfterMakedirs(r) ==
    IF DestDirExists(r) THEN dirs ELSE dirs \cup MakedirsCreates(DestDir(r))

\* Lines 92-93: os.makedirs is called for the directory r and raises.
MakedirsFails(r) == ~DestDirExists(r) /\ MakedirsError(DestDir(r)) # "none"

\* Line 97: the exception shutil.copy2(src_file, dest_dir) raises for the file f
\* of the directory r, "none" when it succeeds.
CopyException(f, r) ==
    CopyRaises(f, CopyTarget(f, DestDir(r), DirsAfterMakedirs(r)), DirsAfterMakedirs(r))

\* Lines 75-106: one iteration of the for loop over the files of root.
ProcessFile ==
    /\ pc = "walk"
    /\ \E f \in pending :
        IF is_hidden(f)
        THEN \* lines 77-79
             /\ outcome' = outcome \cup {<<f, "skipped_hidden">>}
             /\ pending' = pending \ {f}
             /\ UNCHANGED <<dirs, files, pc, copied_files, progress, error>>
        ELSE IF Excluded(Last(f))
        THEN \* lines 82-84
             /\ outcome' = outcome \cup {<<f, "skipped_excluded">>}
             /\ pending' = pending \ {f}
             /\ UNCHANGED <<dirs, files, pc, copied_files, progress, error>>
        ELSE LET dd == DestDir(root)
                 ds == DirsAfterMakedirs(root)
                 target == CopyTarget(f, dd, ds)
                 exc == CopyException(f, root)
                 res == Handled(exc)
             IN IF MakedirsFails(root)
                THEN \* line 93 raises outside the try statement
                     /\ pc' = "aborted"
                     /\ error' = MakedirsError(dd)
                     /\ dirs' = ds
                     /\ UNCHANGED <<files, copied_files, progress, outcome, pending>>
                ELSE IF res = "escape"
                THEN /\ pc' = "aborted"
                     /\ error' = exc
                     /\ dirs' = ds
                     /\ UNCHANGED <<files, copied_files, progress, outcome, pending>>
                ELSE \* lines 96-106
                     /\ dirs' = ds
                     /\ files' = IF res = "copied" THEN files \cup {target} ELSE files
                     /\ copied_files' = IF res = "copied" THEN copied_files + 1
                                        ELSE copied_files
                     /\ outcome' = outcome \cup {<<f, res>>}
                     /\ progress' = progress + 1
                     /\ pending' = pending \ {f}
                     /\ UNCHANGED <<pc, error>>
    /\ UNCHANGED <<env, exclude_extensions, total_files, stack, root, seen, run,
                   filesAfterFirst>>

\* Line 108: the walk is over, the summary is printed.
Finish ==
    /\ pc = "walk"
    /\ pending = {}
    /\ stack = <<>>
    /\ pc' = "done"
    /\ filesAfterFirst' = IF run = 1 THEN files ELSE filesAfterFirst
    /\ UNCHANGED <<dirs, files, env, exclude_extensions, total_files, copied_files,
                   progress, stack, root, pending, seen, outcome, error, run>>

\* copy_files_and_folders is run again with the same arguments.
Rerun ==
    /\ pc = "done"
    /\ run < MaxRuns
    /\ run' = run + 1
    /\ pc' = "prepass"
    /\ UNCHANGED <<dirs, files, env, exclude_extensions, total_files, copied_files,
                   progress, stack, root, pending, seen, outcome, error, filesAfterFirst>>

Next == Main \/ Call \/ Prepass \/ WalkDir \/ ProcessFile \/ Finish \/ Rerun

Spec == Init /\ [][Next]_vars

-----------------------------------------------------------------------------
(* The source tree T and the notions the properties below are stated with *)

\* The files of the source tree before the first run.
SrcTreeFiles == {f \in initFiles : IsPrefix(src, f) /\ f # src}

\* A directory between the source root and f is classified hidden.
UnderHiddenDir(f) == \E n \in (Len(src) + 1)..(Len(f) - 1) : is_hidden(SubSeq(f, 1, n))

\* The files the specification expects to be mirrored when nothing is excluded.
Eligible == {f \in SrcTreeFiles : ~is_hidden(f) /\ ~UnderHiddenDir(f)}

Mirror(f) == dst \o SubSeq(f, Len(src) + 1, Len(f))

FilesUnder(d) == {f \in files : IsPrefix(d, f)}

Logged(f, k) == <<f, k>> \in outcome

\* The source path exists when the run starts.
SourceExists == src \in initDirs \/ src \in initFiles

\* The destination is outside the source tree and holds no file before the run.
FreshDestination ==
    /\ ~IsPrefix(src, dst)
    /\ \A f \in initFiles : ~IsPrefix(dst, f)

-----------------------------------------------------------------------------
(* C1 *)

\* C1: once the source exists nothing aborts copy_files_and_folders: every
\* failure met during the walk, a failure of os.makedirs included, is logged for
\* its entry and the walk goes on, so no run ends with an escaped exception.
C1_NoFailureEscapes == pc # "aborted"

-----------------------------------------------------------------------------
(* C2 *)

\* C2: with an empty exclusion list, a destination outside the source tree that
\* holds no file beforehand, and no failing copy, the files under the destination
\* when the run ends are exactly the mirrors of the files of T that are not hidden
\* and have no hidden directory above them; nothing below a hidden directory of T
\* is there, whatever its own name.
C2_MirrorsExactlyVisibleFiles ==
    (/\ pc = "done"
     /\ exclude_extensions = <<>>
     /\ FreshDestination
     /\ \A o \in outcome : o[2] \notin {"denied", "error"})
    => FilesUnder(dst) = {Mirror(f) : f \in Eligible}

\* A finished run over a tree with a visible file under the hidden directory .h
\* and a visible file at the top, which was mirrored.
C2_Witness ==
    /\ pc = "done"
    /\ exclude_extensions = <<>>
    /\ FreshDestination
    /\ \A o \in outcome : o[2] \notin {"denied", "error"}
    /\ <<S, H, K_T>> \in initFiles
    /\ ~is_hidden(<<S, H, K_T>>)
    /\ is_hidden(<<S, H>>)
    /\ <<D, F_T>> \in files
    /\ <<D, H, K_T>> \notin files

-----------------------------------------------------------------------------
(* C5 *)

\* C5: run as a script on a source path that does not exist, the program stops
\* at once with "Source directory does not exist.": no copy is attempted and the
\* file system, the destination included, stays as it was (the destination also
\* stays as it was when the function is called directly on such a source).
C5_MissingSourceLeavesDestination ==
    /\ (entry = "main" /\ ~SourceExists /\ pc # "start") => pc = "notfound"
    /\ ~SourceExists
       => /\ dirs = initDirs
          /\ files = initFiles
          /\ outcome = {}
          /\ seen = {}
          /\ copied_files = 0

\* The script has stopped on a missing source and the destination d was not created.
C5_Witness ==
    /\ entry = "main"
    /\ ~SourceExists
    /\ pc = "notfound"
    /\ dst = <<D>>
    /\ ~Exists(<<D>>)

-----------------------------------------------------------------------------
(* C3 *)

Attempted == {"copied", "denied", "error"}

\* C3, the states: a PermissionError never escapes, a file whose copy was denied
\* is not counted in copied_files, and a run in which a copy was denied still ends
\* with every file entry the walk yielded logged, a copy having been attempted
\* for each one that is neither hidden nor excluded.
C3_State ==
    /\ error # "PermissionError"
    /\ copied_files = Cardinality({o \in outcome : o[2] = "copied"})
    /\ \A o \in outcome : o[2] = "denied" => o[1] \in denied
    /\ (pc = "done" /\ \E o \in outcome : o[2] = "denied")
       => \A f \in seen :
            /\ \E k \in Attempted \cup {"skipped_hidden", "skipped_excluded"} : Logged(f, k)
            /\ (~is_hidden(f) /\ ~Excluded(Last(f))) => \E k \in Attempted : Logged(f, k)

\* C3, the steps: the step that meets the PermissionError logs it and leaves the
\* walk where it was: the other files of the directory and the directories still
\* to visit are all kept, and copied_files is not advanced.
C3_Step ==
    \A f \in pending :
        (/\ ~is_hidden(f) /\ ~Excluded(Last(f))
         /\ ~MakedirsFails(root)
         /\ CopyException(f, root) = "PermissionError"
         /\ f \notin pending')
        => /\ pc' = "walk"
           /\ Logged(f, "denied")'
           /\ pending' = pending \ {f}
           /\ stack' = stack
           /\ copied_files' = copied_files
           /\ progress' = progress + 1

\* C3: a file whose copy raises a permission error does not halt the traversal.
C3_PermissionErrorDoesNotHalt == []C3_State /\ [][C3_Step]_vars

\* The copy of s/f.t was denied, and the file s/a/g.t, which the walk reaches
\* later, was copied.
C3_Witness ==
    /\ pc = "done"
    /\ Logged(<<S, F_T>>, "denied")
    /\ Logged(<<S, A, G_T>>, "copied")
    /\ copied_files = 1

-----------------------------------------------------------------------------
(* C4 *)

HasDot(name) == \E i \in 1..Len(name) : name[i] = "."

\* The suffix after the final "." of a name that has one.
Extension(name) ==
    LET k == CHOOSE i \in 1..Len(name) :
                 name[i] = "." /\ \A j \in (i + 1)..Len(name) : name[j] # "."
    IN SubSeq(name, k + 1, Len(name))

ExtensionListed(name) ==
    HasDot(name) /\ \E i \in 1..Len(exclude_extensions) :
                        exclude_extensions[i] = Extension(name)

\* C4: a copied file never has an extension that is in the exclusion list, and a
\* visited file that is not hidden and whose extension is in the list is logged
\* as an excluded file type, whatever characters the listed extension holds.
C4_ExclusionIsByExtension ==
    \A o \in outcome :
        /\ o[2] = "copied" => ~ExtensionListed(Last(o[1]))
        /\ (~is_hidden(o[1]) /\ ExtensionListed(Last(o[1]))) => o[2] = "skipped_excluded"

-----------------------------------------------------------------------------
(* C6 *)

\* C6: when the walk ends the progress bar stands at the number of file entries
\* the walk visited, each entry having advanced it by one whatever its outcome.
C6_ProgressCountsEveryEntry == pc = "done" => progress = Cardinality(seen)

-----------------------------------------------------------------------------
(* C7 *)

\* C7: copied_files never exceeds total_files, the unfiltered count of the
\* pre-pass, and at the end of the first run the two are equal exactly when every
\* file of the source tree was copied (none hidden, below a hidden directory,
\* excluded or failing).
C7_CopiedAtMostTotal ==
    /\ pc \in {"walk", "done", "aborted"} => copied_files <= total_files
    /\ (pc = "done" /\ run = 1)
       => (copied_files = total_files <=> \A f \in SrcTreeFiles : Logged(f, "copied"))

-----------------------------------------------------------------------------
(* C8 *)

\* C8: a second run on the same arguments leaves the same set of files as the
\* first one did.
C8_SecondRunAddsNothing == (pc = "done" /\ run = 2) => files = filesAfterFirst

-----------------------------------------------------------------------------
(* C9 *)

\* The attribute query came back with a value that is not its error value.
QuerySucceeded(p) == ~QueryRaises(p) /\ GetFileAttributesW(p) # INVALID_FILE_ATTRIBUTES

\* C9: on win32 a file is skipped as hidden only when the attribute query
\* succeeded and reported the hidden bit; a query that raises or returns its
\* error value leaves the entry visible.
C9_HiddenOnlyOnReportedBit ==
    platform = "win32"
    => \A o \in outcome :
           o[2] = "skipped_hidden"
           => /\ QuerySucceeded(o[1])
              /\ BitAnd(GetFileAttributesW(o[1]), FILE_ATTRIBUTE_HIDDEN) # 0

-----------------------------------------------------------------------------
(* C10 *)

\* C10: every run over a finite tree ends with the summary of line 108, also
\* when the destination is inside the source tree: what the run creates is never
\* descended into again and again until the platform's nesting limit stops it.
C10_WalkEndsWithinTheTree == pc = "aborted" => error # "ENAMETOOLONG"

====
